---- MODULE Spec2Model ----
(***************************************************************************)
(* HydroLip Scanner (src/src/main.jsx): the App component's state, its     *)
(* event handlers and the asynchronous completions they wait for           *)
(* (getUserMedia, FileReader, fetch), as one state machine.                *)
(*                                                                         *)
(* Strings whose characters the code inspects (file.type, data-URIs) are   *)
(* sequences of one-character strings; messages and response texts that    *)
(* the code only stores or hands to JSON.parse are TLA+ strings.           *)
(***************************************************************************)
EXTENDS Integers, Sequences, FiniteSets, TLC

VARIABLES
    image,          \* useState(null): null or a data-URI
    isAnalyzing,    \* useState(false)
    results,        \* useState(null): null or the parsed reply
    error,          \* useState('')
    isCameraActive, \* useState(false)
    streamRef,      \* streamRef.current: 0 (null) or a stream
    srcObject,      \* videoRef.current.srcObject: 0 when there is no <video> or no stream on it
    apiKey,         \* module constant read once at load
    liveStreams,    \* platform: streams returned by getUserMedia whose tracks are not stopped
    pendingMedia,   \* platform: getUserMedia calls awaiting resolution
    dialogOpen,     \* platform: the file chooser opened by fileInputRef.current.click()
    readers,        \* platform: FileReaders between readAsDataURL and onload
    inflight,       \* platform: fetch calls awaiting settlement, with the image each sent
    resultsFor,     \* history: the image sent by the request whose reply is in results
    last            \* history: the handler that ran last, and what it found

vars == <<image, isAnalyzing, results, error, isCameraActive, streamRef, srcObject,
          apiKey, liveStreams, pendingMedia, dialogOpen, readers, inflight,
          resultsFor, last>>

(***************************************************************************)
(* Bounds of the model.                                                    *)
(***************************************************************************)
MaxPendingMedia == 2
MaxStreams == 2
MaxReaders == 2
MaxInflight == 2

(***************************************************************************)
(* JavaScript values.                                                      *)
(***************************************************************************)
\* null, for the string-valued state (image)
null == <<"null">>

\* null, for results
nullValue == [type |-> "null"]

\* undefined, as an array element that does not exist
undefined == <<"undefined">>

\* `!x` is false for a non-empty string
Truthy(x) == x # null /\ x # undefined /\ x # <<>>

\* `results && ...`: objects are truthy, null is not
TruthyValue(v) == v.type = "object"

(***************************************************************************)
(* The messages the handlers set.                                          *)
(***************************************************************************)
InvalidFileMsg == "Please upload a valid image file."
CameraMsg == "Could not access camera. Please check permissions or upload a photo."
AnalysisMsg == "Analysis failed. Check your API key in Vercel settings."

(***************************************************************************)
(* Strings as character sequences.                                         *)
(***************************************************************************)
\* String.prototype.startsWith
startsWith(s, p) == Len(s) >= Len(p) /\ SubSeq(s, 1, Len(p)) = p

\* index of the first occurrence of character c in s at or after position i, 0 if none
RECURSIVE indexOf(_, _, _)
indexOf(s, c, i) ==
    IF i > Len(s) THEN 0
    ELSE IF s[i] = c THEN i
    ELSE indexOf(s, c, i + 1)

\* String.prototype.split(c): the pieces of s between occurrences of c
RECURSIVE split(_, _)
split(s, c) ==
    LET k == indexOf(s, c, 1)
    IN  IF k = 0 THEN <<s>>
        ELSE <<SubSeq(s, 1, k - 1)>> \o split(SubSeq(s, k + 1, Len(s)), c)

\* a[i] of a JavaScript array, 0-based
at(a, i) == IF i + 1 <= Len(a) THEN a[i + 1] ELSE undefined

(***************************************************************************)
(* Inputs: the files the user can pick and the frames the video can show.  *)
(***************************************************************************)
NoFile == [name |-> "none", type |-> <<>>, base64 |-> <<>>]

PngFile == [name |-> "lips.png",
            type |-> <<"i","m","a","g","e","/","p","n","g">>,
            base64 |-> <<"i","V","B">>]

JpegFile == [name |-> "lips.jpg",
             type |-> <<"i","m","a","g","e","/","j","p","e","g">>,
             base64 |-> <<"/","9","j">>]

TextFile == [name |-> "notes.txt",
             type |-> <<"t","e","x","t","/","p","l","a","i","n">>,
             base64 |-> <<"a","G","k">>]

UntypedFile == [name |-> "blob", type |-> <<>>, base64 |-> <<"A","A">>]

Files == {PngFile, JpegFile, TextFile, UntypedFile}

\* a frame is the base64 of its JPEG encoding; the empty frame is a video
\* whose videoWidth is still 0
EmptyFrame == <<>>
Frames == {EmptyFrame, <<"/","9","k">>}

\* FileReader.readAsDataURL: "data:" type ";base64," content
readAsDataURL(file) ==
    <<"d","a","t","a",":">> \o file.type \o <<";","b","a","s","e","6","4",",">> \o file.base64

\* canvas.toDataURL('image/jpeg', 0.8); a canvas of width 0 yields "data:,"
toDataURL(frame) ==
    IF frame = EmptyFrame THEN <<"d","a","t","a",":",",">>
    ELSE <<"d","a","t","a",":","i","m","a","g","e","/","j","p","e","g",
           ";","b","a","s","e","6","4",",">> \o frame

(***************************************************************************)
(* The reply of the external endpoint.                                     *)
(***************************************************************************)
WellText == "{\"overallStatus\":\"Well Hydrated\",\"dehydrationScore\":82}"
DryText == "{\"overallStatus\":\"Severely Dry\",\"dehydrationScore\":20}"
MildText == "{\"overallStatus\":\"Mild Dehydration\",\"dehydrationScore\":55}"
UnwellText == "{\"overallStatus\":\"UNWELL, mild cracks\",\"dehydrationScore\":30}"
EmptyStatusText == "{\"overallStatus\":\"\",\"dehydrationScore\":0}"
NoStatusText == "{\"dehydrationScore\":40}"
NullText == "null"
BadText == "Here is the analysis"

SyntaxError == [type |-> "SyntaxError"]

\* the object a reply text denotes; a key that is absent reads as undefined
Object(status, score) ==
    [type |-> "object", overallStatus |-> status, dehydrationScore |-> score]

\* JSON.parse
JSONparse(text) ==
    CASE text = WellText -> Object(
            <<"W","e","l","l"," ","H","y","d","r","a","t","e","d">>, 82)
      [] text = DryText -> Object(<<"S","e","v","e","r","e","l","y"," ","D","r","y">>, 20)
      [] text = MildText -> Object(
            <<"M","i","l","d"," ","D","e","h","y","d","r","a","t","i","o","n">>, 55)
      [] text = UnwellText -> Object(
            <<"U","N","W","E","L","L",","," ","m","i","l","d"," ","c","r","a","c","k","s">>, 30)
      [] text = EmptyStatusText -> Object(<<>>, 0)
      [] text = NoStatusText -> Object(undefined, 40)
      [] text = NullText -> nullValue
      [] OTHER -> SyntaxError

\* the texts an envelope can carry
ReplyTexts == {WellText, DryText, MildText, UnwellText, EmptyStatusText, NoStatusText,
               NullText, BadText}

\* how a fetch can settle: it rejects, its body is not JSON, the envelope has
\* no candidates[0].content.parts[0].text, or the envelope carries a text
Outcomes ==
    {[kind |-> "reject", text |-> ""],
     [kind |-> "bodyNotJson", text |-> ""],
     [kind |-> "noCandidates", text |-> ""]}
    \cup {[kind |-> "text", text |-> t] : t \in ReplyTexts}

\* import.meta.env?.VITE_GEMINI_API_KEY as the build can provide it
Envs == {"undefined", "", "AIza"}

\* getApiKey: `key || ""`
getApiKey(env) == IF env = "undefined" \/ env = "" THEN "" ELSE env

\* the endpoint answers a request without a key with an error envelope
OutcomesFor(key) ==
    IF key = "" THEN {o \in Outcomes : o.kind \in {"reject", "noCandidates"}}
    ELSE Outcomes

\* does the try block of analyzeLips run to its end on this outcome
Succeeds(o) == o.kind = "text" /\ JSONparse(o.text) # SyntaxError

(***************************************************************************)
(* What is rendered: the conditional panels of App.                        *)
(***************************************************************************)
IdlePanel == ~Truthy(image) /\ ~isCameraActive
CameraPanel == isCameraActive
\* the preview panel shown whether or not an analysis is running
PreviewPanelWhileAnalyzing == Truthy(image) /\ ~TruthyValue(results)

PreviewPanel == Truthy(image) /\ ~TruthyValue(results) /\ ~isAnalyzing
SpinnerPanel == isAnalyzing
ResultPanel == TruthyValue(results)

(***************************************************************************)
(* Presentation of a result: the result panel.                             *)
(***************************************************************************)
\* String.prototype.toLowerCase, one character
lowerChar(c) ==
    CASE c = "A" -> "a" [] c = "B" -> "b" [] c = "C" -> "c" [] c = "D" -> "d"
      [] c = "E" -> "e" [] c = "F" -> "f" [] c = "G" -> "g" [] c = "H" -> "h"
      [] c = "I" -> "i" [] c = "J" -> "j" [] c = "K" -> "k" [] c = "L" -> "l"
      [] c = "M" -> "m" [] c = "N" -> "n" [] c = "O" -> "o" [] c = "P" -> "p"
      [] c = "Q" -> "q" [] c = "R" -> "r" [] c = "S" -> "s" [] c = "T" -> "t"
      [] c = "U" -> "u" [] c = "V" -> "v" [] c = "W" -> "w" [] c = "X" -> "x"
      [] c = "Y" -> "y" [] c = "Z" -> "z" [] OTHER -> c

\* String.prototype.toLowerCase
toLowerCase(s) == [i \in 1..Len(s) |-> lowerChar(s[i])]

\* String.prototype.includes
includes(s, p) ==
    \E i \in 1..(Len(s) - Len(p) + 1) : SubSeq(s, i, i + Len(p) - 1) = p

\* getStatusColor with `mild` tested before `well`
getStatusColorMildFirst(status, type) ==
    LET s == IF Truthy(status) THEN toLowerCase(status) ELSE <<>>
    IN  IF includes(s, <<"m","i","l","d">>)
        THEN (IF type = "bg" THEN "bg-amber-500" ELSE "text-amber-600")
        ELSE IF includes(s, <<"w","e","l","l">>)
        THEN (IF type = "bg" THEN "bg-emerald-500" ELSE "text-emerald-600")
        ELSE (IF type = "bg" THEN "bg-rose-500" ELSE "text-rose-600")

\* getStatusColor: `status?.toLowerCase() || ''`, then the two substring tests in order
getStatusColor(status, type) ==
    LET s == IF Truthy(status) THEN toLowerCase(status) ELSE <<>>
    IN  IF includes(s, <<"w","e","l","l">>)
        THEN (IF type = "bg" THEN "bg-emerald-500" ELSE "text-emerald-600")
        ELSE IF includes(s, <<"m","i","l","d">>)
        THEN (IF type = "bg" THEN "bg-amber-500" ELSE "text-amber-600")
        ELSE (IF type = "bg" THEN "bg-rose-500" ELSE "text-rose-600")

\* a non-negative integer as the text React renders for it
RECURSIVE toText(_)
toText(n) ==
    LET digit == <<"0","1","2","3","4","5","6","7","8","9">>[(n % 10) + 1]
    IN  IF n < 10 THEN <<digit>> ELSE toText(n \div 10) \o <<digit>>

\* the class of the result panel's banner
StatusClass == getStatusColor(results.overallStatus, "bg")

\* the text of the banner's <h2>: {results.dehydrationScore}%
ScoreText == toText(results.dehydrationScore) \o <<"%">>

\* the file chooser is modal: no button can be pressed while it is open
CanClick == ~dialogOpen

Did(op, arg, o) ==
    [op |-> op, arg |-> arg, outcome |-> o,
     hadResults |-> TruthyValue(results), hadError |-> error # ""]

Init ==
    /\ image = null
    /\ isAnalyzing = FALSE
    /\ results = nullValue
    /\ error = ""
    /\ isCameraActive = FALSE
    /\ streamRef = 0
    /\ srcObject = 0
    /\ apiKey \in {getApiKey(env) : env \in Envs}
    /\ liveStreams = {}
    /\ pendingMedia = 0
    /\ dialogOpen = FALSE
    /\ readers = <<>>
    /\ inflight = <<>>
    /\ resultsFor = null
    /\ last = [op |-> "init", arg |-> "", outcome |-> "",
               hadResults |-> FALSE, hadError |-> FALSE]

\* the sequence s without its i-th element
RemoveAt(s, i) == SubSeq(s, 1, i - 1) \o SubSeq(s, i + 1, Len(s))

ImagePrefix == <<"i","m","a","g","e","/">>

(***************************************************************************)
(* Camera.                                                                 *)
(***************************************************************************)
\* startCamera up to its await: the Camera button of the idle panel
StartCamera ==
    /\ CanClick /\ IdlePanel
    /\ pendingMedia < MaxPendingMedia
    /\ error' = ""
    /\ pendingMedia' = pendingMedia + 1
    /\ last' = Did("startCamera", "", "")
    /\ UNCHANGED <<image, isAnalyzing, results, isCameraActive, streamRef, srcObject,
                   apiKey, liveStreams, dialogOpen, readers, inflight, resultsFor>>

\* the stream a resolving getUserMedia returns: a new one, with live tracks
NewStream == CHOOSE s \in (1..MaxStreams) \ liveStreams :
                 \A t \in (1..MaxStreams) \ liveStreams : s <= t

\* the effect on [isCameraActive]: when isCameraActive has just become true
\* the mounted <video> gets streamRef.current; otherwise the effect does not run
EffectSrcObject(wasActive, stream) == IF wasActive THEN srcObject ELSE stream

\* startCamera after its await, getUserMedia resolved
GetUserMediaResolved ==
    /\ pendingMedia > 0
    /\ (1..MaxStreams) \ liveStreams # {}
    /\ pendingMedia' = pendingMedia - 1
    /\ liveStreams' = liveStreams \cup {NewStream}
    /\ streamRef' = NewStream
    /\ isCameraActive' = TRUE
    /\ srcObject' = EffectSrcObject(isCameraActive, NewStream)
    /\ last' = Did("startCamera.resolved", "", "")
    /\ UNCHANGED <<image, isAnalyzing, results, error, apiKey, dialogOpen, readers,
                   inflight, resultsFor>>

\* startCamera after its await, getUserMedia rejected: the catch block
GetUserMediaRejected ==
    /\ pendingMedia > 0
    /\ pendingMedia' = pendingMedia - 1
    /\ error' = CameraMsg
    /\ last' = Did("startCamera.rejected", "", "")
    /\ UNCHANGED <<image, isAnalyzing, results, isCameraActive, streamRef, srcObject,
                   apiKey, liveStreams, dialogOpen, readers, inflight, resultsFor>>

\* stopCamera: stop the tracks of streamRef.current, if any, and leave the camera panel
stopCamera ==
    /\ liveStreams' = IF streamRef # 0 THEN liveStreams \ {streamRef} ELSE liveStreams
    /\ streamRef' = 0
    /\ isCameraActive' = FALSE
    /\ srcObject' = 0

\* capturePhoto: the shutter button of the camera panel, where videoRef.current is set
CapturePhoto(frame) ==
    /\ CanClick /\ CameraPanel
    /\ image' = toDataURL(frame)
    /\ stopCamera
    /\ last' = Did("capturePhoto", "", "")
    /\ UNCHANGED <<isAnalyzing, results, error, apiKey, pendingMedia, dialogOpen,
                   readers, inflight, resultsFor>>

(***************************************************************************)
(* Upload.                                                                 *)
(***************************************************************************)
\* triggerFileInput: the Upload button of the idle panel opens the file chooser
TriggerFileInput ==
    /\ CanClick /\ IdlePanel
    /\ dialogOpen' = TRUE
    /\ last' = Did("triggerFileInput", "", "")
    /\ UNCHANGED <<image, isAnalyzing, results, error, isCameraActive, streamRef,
                   srcObject, apiKey, liveStreams, pendingMedia, readers, inflight,
                   resultsFor>>

\* is the file accepted by handleImageUpload
IsImage(file) == startsWith(file.type, ImagePrefix)

\* handleImageUpload without the `return` after the invalid-file error
HandleImageUploadNoReturn(file) ==
    /\ dialogOpen
    /\ dialogOpen' = FALSE
    /\ IF file = NoFile
       THEN UNCHANGED <<error, readers>>
       ELSE /\ Len(readers) < MaxReaders
            /\ readers' = Append(readers, file)
            /\ IF ~IsImage(file) THEN error' = InvalidFileMsg ELSE UNCHANGED error
    /\ last' = Did("handleImageUpload", file.name,
                   IF file = NoFile THEN "none"
                   ELSE IF IsImage(file) THEN "reading" ELSE "rejected")
    /\ UNCHANGED <<image, isAnalyzing, results, isCameraActive, streamRef, srcObject,
                   apiKey, liveStreams, pendingMedia, inflight, resultsFor>>

\* handleImageUpload: the chooser closes with files[0] = file (NoFile: nothing chosen)
HandleImageUpload(file) ==
    /\ dialogOpen
    /\ dialogOpen' = FALSE
    /\ IF file = NoFile
       THEN UNCHANGED <<error, readers>>
       ELSE IF ~IsImage(file)
       THEN error' = InvalidFileMsg /\ UNCHANGED readers
       ELSE /\ Len(readers) < MaxReaders
            /\ readers' = Append(readers, file)
            /\ UNCHANGED error
    /\ last' = Did("handleImageUpload", file.name,
                   IF file = NoFile THEN "none"
                   ELSE IF IsImage(file) THEN "reading" ELSE "rejected")
    /\ UNCHANGED <<image, isAnalyzing, results, isCameraActive, streamRef, srcObject,
                   apiKey, liveStreams, pendingMedia, inflight, resultsFor>>

\* reader.onload without setResults(null)
ReaderOnloadKeepsResults(i) ==
    /\ i \in 1..Len(readers)
    /\ image' = readAsDataURL(readers[i])
    /\ error' = ""
    /\ readers' = RemoveAt(readers, i)
    /\ last' = Did("reader.onload", readers[i].name, "")
    /\ UNCHANGED <<isAnalyzing, results, resultsFor, isCameraActive, streamRef, srcObject,
                   apiKey, liveStreams, pendingMedia, dialogOpen, inflight>>

\* reader.onload of the i-th pending reader
ReaderOnload(i) ==
    /\ i \in 1..Len(readers)
    /\ image' = readAsDataURL(readers[i])
    /\ results' = nullValue
    /\ error' = ""
    /\ resultsFor' = null
    /\ readers' = RemoveAt(readers, i)
    /\ last' = Did("reader.onload", readers[i].name, "")
    /\ UNCHANGED <<isAnalyzing, isCameraActive, streamRef, srcObject, apiKey,
                   liveStreams, pendingMedia, dialogOpen, inflight>>

\* the i-th pending read fails: the reader has no onerror handler
ReaderFailed(i) ==
    /\ i \in 1..Len(readers)
    /\ readers' = RemoveAt(readers, i)
    /\ last' = Did("reader.onerror", readers[i].name, "")
    /\ UNCHANGED <<image, isAnalyzing, results, error, isCameraActive, streamRef,
                   srcObject, apiKey, liveStreams, pendingMedia, dialogOpen, inflight,
                   resultsFor>>

(***************************************************************************)
(* Analysis.                                                               *)
(***************************************************************************)
\* image.split(',')[0]
base64DataFirstPiece(img) == at(split(img, ","), 0)

\* image.split(',')[1]
base64Data(img) == at(split(img, ","), 1)

\* analyzeLips up to `await fetch`: the Analyze Now button of the preview panel
AnalyzeLips ==
    /\ CanClick /\ PreviewPanel
    /\ Len(inflight) < MaxInflight
    /\ IF ~Truthy(image)
       THEN UNCHANGED <<isAnalyzing, error, inflight>>
       ELSE /\ isAnalyzing' = TRUE
            /\ error' = ""
            /\ inflight' = Append(inflight, [image |-> image, data |-> base64Data(image)])
    /\ last' = Did("analyzeLips", "", "")
    /\ UNCHANGED <<image, results, isCameraActive, streamRef, srcObject, apiKey,
                   liveStreams, pendingMedia, dialogOpen, readers, resultsFor>>

\* analyzeLips with setIsAnalyzing(false) at the end of the try block, not in finally
FetchSettledNoFinally(i, o) ==
    /\ i \in 1..Len(inflight)
    /\ inflight' = RemoveAt(inflight, i)
    /\ IF Succeeds(o)
       THEN /\ results' = JSONparse(o.text)
            /\ resultsFor' = IF TruthyValue(JSONparse(o.text)) THEN inflight[i].image ELSE null
            /\ isAnalyzing' = FALSE
            /\ UNCHANGED error
       ELSE /\ error' = AnalysisMsg
            /\ UNCHANGED <<results, resultsFor, isAnalyzing>>
    /\ last' = Did("analyzeLips.settled", o.kind, o.text)
    /\ UNCHANGED <<image, isCameraActive, streamRef, srcObject, apiKey, liveStreams,
                   pendingMedia, dialogOpen, readers>>

\* analyzeLips with setIsAnalyzing(false) in the catch block only
FetchSettledCatchOnly(i, o) ==
    /\ i \in 1..Len(inflight)
    /\ inflight' = RemoveAt(inflight, i)
    /\ IF Succeeds(o)
       THEN /\ results' = JSONparse(o.text)
            /\ resultsFor' = IF TruthyValue(JSONparse(o.text)) THEN inflight[i].image ELSE null
            /\ UNCHANGED <<error, isAnalyzing>>
       ELSE /\ error' = AnalysisMsg
            /\ isAnalyzing' = FALSE
            /\ UNCHANGED <<results, resultsFor>>
    /\ last' = Did("analyzeLips.settled", o.kind, o.text)
    /\ UNCHANGED <<image, isCameraActive, streamRef, srcObject, apiKey, liveStreams,
                   pendingMedia, dialogOpen, readers>>

\* analyzeLips after its awaits: the i-th outstanding fetch settles with outcome o
FetchSettled(i, o) ==
    /\ i \in 1..Len(inflight)
    /\ inflight' = RemoveAt(inflight, i)
    /\ IF Succeeds(o)
       THEN /\ results' = JSONparse(o.text)
            /\ resultsFor' = IF TruthyValue(JSONparse(o.text)) THEN inflight[i].image ELSE null
            /\ UNCHANGED error
       ELSE /\ error' = AnalysisMsg
            /\ UNCHANGED <<results, resultsFor>>
    /\ isAnalyzing' = FALSE
    /\ last' = Did("analyzeLips.settled", o.kind, o.text)
    /\ UNCHANGED <<image, isCameraActive, streamRef, srcObject, apiKey, liveStreams,
                   pendingMedia, dialogOpen, readers>>

\* Retake offered whenever an image is held
RetakeAnytime ==
    /\ CanClick /\ Truthy(image)
    /\ image' = null
    /\ last' = Did("retake", "", "")
    /\ UNCHANGED <<isAnalyzing, results, error, isCameraActive, streamRef, srcObject,
                   apiKey, liveStreams, pendingMedia, dialogOpen, readers, inflight,
                   resultsFor>>

\* the Retake button of the preview panel
Retake ==
    /\ CanClick /\ PreviewPanel
    /\ image' = null
    /\ last' = Did("retake", "", "")
    /\ UNCHANGED <<isAnalyzing, results, error, isCameraActive, streamRef, srcObject,
                   apiKey, liveStreams, pendingMedia, dialogOpen, readers, inflight,
                   resultsFor>>

\* Try Again that also discards the image
TryAgainClearsImage ==
    /\ CanClick /\ ResultPanel
    /\ results' = nullValue
    /\ resultsFor' = null
    /\ image' = null
    /\ last' = Did("tryAgain", "", "")
    /\ UNCHANGED <<isAnalyzing, error, isCameraActive, streamRef, srcObject,
                   apiKey, liveStreams, pendingMedia, dialogOpen, readers, inflight>>

\* the Try Again button of the result panel
TryAgain ==
    /\ CanClick /\ ResultPanel
    /\ results' = nullValue
    /\ resultsFor' = null
    /\ last' = Did("tryAgain", "", "")
    /\ UNCHANGED <<image, isAnalyzing, error, isCameraActive, streamRef, srcObject,
                   apiKey, liveStreams, pendingMedia, dialogOpen, readers, inflight>>

Next ==
    \/ StartCamera
    \/ GetUserMediaResolved
    \/ GetUserMediaRejected
    \/ \E frame \in Frames : CapturePhoto(frame)
    \/ TriggerFileInput
    \/ \E file \in Files \cup {NoFile} : HandleImageUpload(file)
    \/ \E i \in 1..MaxReaders : ReaderOnload(i)
    \/ \E i \in 1..MaxReaders : ReaderFailed(i)
    \/ AnalyzeLips
    \/ \E i \in 1..MaxInflight, o \in OutcomesFor(apiKey) : FetchSettled(i, o)
    \/ Retake
    \/ TryAgain

Spec == Init /\ [][Next]_vars

\* every outstanding fetch settles: the transport resolves or rejects each request
FairSpec ==
    Spec /\ WF_vars(\E i \in 1..MaxInflight, o \in OutcomesFor(apiKey) : FetchSettled(i, o))

(***************************************************************************)
(* Properties.                                                             *)
(***************************************************************************)
\* how many of the five panels are rendered
PanelsShown ==
    Cardinality({p \in {"idle", "camera", "preview", "spinner", "result"} :
        \/ p = "idle" /\ IdlePanel
        \/ p = "camera" /\ CameraPanel
        \/ p = "preview" /\ PreviewPanel
        \/ p = "spinner" /\ SpinnerPanel
        \/ p = "result" /\ ResultPanel})

\* the files of Files whose declared type does not begin with "image/"
NonImageNames == {"notes.txt", "blob"}

\* "data:image/png;base64,iVB", what reading lips.png yields
PngDataURI == <<"d","a","t","a",":","i","m","a","g","e","/","p","n","g",";",
                "b","a","s","e","6","4",",","i","V","B">>

\* "data:image/jpeg;base64,/9j", what reading lips.jpg yields
JpegDataURI == <<"d","a","t","a",":","i","m","a","g","e","/","j","p","e","g",";",
                 "b","a","s","e","6","4",",","/","9","j">>

\* the last step was an analysis call ending in its catch block
AnalysisFailed ==
    /\ last.op = "analyzeLips.settled"
    /\ \/ last.arg \in {"reject", "bodyNotJson", "noCandidates"}
       \/ last.arg = "text" /\ last.outcome = BadText

\* C1: at most one analysis request is outstanding at any time, and one is
\* outstanding exactly while isAnalyzing is true: the Analyze Now button is
\* not there to be pressed a second time.
OneOutstandingRequest ==
    /\ Len(inflight) <= 1
    /\ isAnalyzing <=> Len(inflight) = 1

\* C1 witness: a request is outstanding and Analyze Now cannot be pressed
AnalysisOutstanding ==
    /\ last.op = "analyzeLips"
    /\ isAnalyzing /\ Len(inflight) = 1
    /\ Truthy(image) /\ ~PreviewPanel

\* C2 (as claimed): a displayed result was parsed from the reply to the
\* request that sent the image now held.
ResultBelongsToImage == TruthyValue(results) => resultsFor = image

\* C3 (as claimed): at most one camera stream has live tracks.
AtMostOneLiveStream == Cardinality(liveStreams) <= 1

\* C4 (as claimed): right after capturePhoto the camera is fully released:
\* streamRef is null, isCameraActive is false and no stream has a live track.
CaptureReleasesCamera ==
    last.op = "capturePhoto" =>
        streamRef = 0 /\ ~isCameraActive /\ liveStreams = {}

\* C5 (as claimed): outside CameraActive no stream obtained by startCamera
\* has live tracks.
NoLiveStreamOutsideCamera == ~isCameraActive => liveStreams = {}

\* C6 (as claimed): exactly one of the five render conditions is true.
ExactlyOnePanel == PanelsShown = 1

\* C7 (as claimed): right after capturePhoto results is null and error is
\* the empty string.
CaptureClearsResultsAndError ==
    last.op = "capturePhoto" => results = nullValue /\ error = ""

\* C8: right after the read of an image file completes, image is that file's
\* data-URI, results is null and error is empty.
UploadSetsImageAndClears ==
    last.op = "reader.onload" =>
        /\ last.arg \in {"lips.png", "lips.jpg"}
        /\ last.arg = "lips.png" => image = PngDataURI
        /\ last.arg = "lips.jpg" => image = JpegDataURI
        /\ results = nullValue
        /\ error = ""

\* C8 witness: an upload completes over a displayed result and an error
UploadOverResultAndError ==
    /\ last.op = "reader.onload"
    /\ last.hadResults /\ last.hadError
    /\ image = PngDataURI

\* C9: choosing a file whose type does not begin with "image/" sets the
\* invalid-file message and changes nothing else: no read is started, and
\* from the idle panel the idle panel stays.
RejectedFileChangesOnlyError ==
    [][(last'.op = "handleImageUpload" /\ last'.arg \in NonImageNames) =>
          /\ error' = InvalidFileMsg
          /\ UNCHANGED <<image, results, isAnalyzing, isCameraActive, streamRef,
                         srcObject, liveStreams, pendingMedia, readers, inflight>>
          /\ IdlePanel => IdlePanel']_vars

\* C9 witness: a non-image file was chosen in Idle
NonImageFileRejected ==
    /\ last.op = "handleImageUpload"
    /\ last.arg \in NonImageNames
    /\ ~last.hadError /\ error = InvalidFileMsg
    /\ IdlePanel /\ readers = <<>>

\* C10: an analysis call that fails ends with the analysis-failure message,
\* isAnalyzing false, results null and no request outstanding; and only
\* pressing Analyze Now issues a request.
AnalysisFailureEndsCall ==
    /\ [](AnalysisFailed =>
            /\ error = AnalysisMsg
            /\ ~isAnalyzing
            /\ results = nullValue
            /\ inflight = <<>>)
    /\ [][Len(inflight') > Len(inflight) => last'.op = "analyzeLips"]_vars

\* C10 witness: a call made without an API key has failed
AnalysisFailedWithoutKey ==
    /\ AnalysisFailed
    /\ apiKey = ""
    /\ error = AnalysisMsg /\ ~isAnalyzing /\ PreviewPanel

\* the last step was an analysis call whose reply text parsed
AnalysisSucceeded ==
    /\ last.op = "analyzeLips.settled"
    /\ last.arg = "text"
    /\ last.outcome \in ReplyTexts \ {BadText}

\* C11 (as claimed): a call whose reply text parses ends with results equal
\* to the parsed value, isAnalyzing false, error empty and the result panel,
\* not the preview panel, rendered.
SuccessShowsResult ==
    AnalysisSucceeded =>
        /\ results = JSONparse(last.outcome)
        /\ ~isAnalyzing
        /\ error = ""
        /\ ResultPanel /\ ~PreviewPanel

\* C12 (as claimed): when a call fails, image is the image the call was
\* started with, the preview panel is back with the failure message, and
\* image becomes null only by Retake.
FailureKeepsCallImage ==
    /\ [][(last'.op = "analyzeLips.settled" /\ last'.arg # "text" /\ Len(inflight) = 1) =>
            /\ image' = inflight[1].image
            /\ PreviewPanel'
            /\ error' = AnalysisMsg]_vars
    /\ [][(image # null /\ image' = null) => last'.op = "retake"]_vars

CameraFailureStaysIdle ==
    last.op = "startCamera.rejected" =>
        /\ error = CameraMsg
        /\ ~isCameraActive /\ streamRef = 0
        /\ IdlePanel

\* C15 (as claimed): whenever the camera panel is shown there is a cancel
\* step: one that leaves the camera panel without producing an image.
CancelAvailable ==
    isCameraActive => ENABLED (Next /\ ~isCameraActive' /\ image' = image)

\* the result panel shows the object the text denotes
Shown(text) == ResultPanel /\ results = JSONparse(text)

\* C16: the banner's class follows overallStatus: "well" anywhere in the
\* lower-cased status gives emerald, else "mild" gives amber, else (also for
\* an empty or missing status) rose; "Well Hydrated" with score 82 shows
\* "82%" in emerald.
StatusClassification ==
    /\ Shown(WellText) =>
          /\ StatusClass = "bg-emerald-500"
          /\ getStatusColor(results.overallStatus, "text") = "text-emerald-600"
          /\ ScoreText = <<"8","2","%">>
    /\ Shown(UnwellText) => StatusClass = "bg-emerald-500"
    /\ Shown(MildText) =>
          /\ StatusClass = "bg-amber-500"
          /\ getStatusColor(results.overallStatus, "text") = "text-amber-600"
    /\ Shown(DryText) =>
          /\ StatusClass = "bg-rose-500"
          /\ getStatusColor(results.overallStatus, "text") = "text-rose-600"
    /\ Shown(EmptyStatusText) => StatusClass = "bg-rose-500"
    /\ Shown(NoStatusText) => StatusClass = "bg-rose-500"
    /\ ResultPanel => \E t \in ReplyTexts : Shown(t)

\* C16 witness: a status holding both "well" and "mild" is displayed
BothWordsShown ==
    /\ Shown(UnwellText)
    /\ StatusClass = "bg-emerald-500"
    /\ ScoreText = <<"3","0","%">>

\* everything after the first comma of s
AfterFirstComma(s) == SubSeq(s, indexOf(s, ",", 1) + 1, Len(s))

\* C17: the base64 data of every request is its image payload without the
\* prefix up to and including the first comma, for captured and for uploaded
\* images alike.
RequestCarriesBase64 ==
    \A i \in 1..Len(inflight) :
        /\ inflight[i].data = AfterFirstComma(inflight[i].image)
        /\ inflight[i].image = PngDataURI => inflight[i].data = <<"i","V","B">>
        /\ inflight[i].image = JpegDataURI => inflight[i].data = <<"/","9","j">>
        /\ inflight[i].image = toDataURL(<<"/","9","k">>) => inflight[i].data = <<"/","9","k">>
        /\ inflight[i].image = toDataURL(EmptyFrame) => inflight[i].data = <<>>

\* C17 witness: a request for a captured image is outstanding
CapturedImageSent ==
    /\ Len(inflight) = 1
    /\ inflight[1].image = toDataURL(<<"/","9","k">>)
    /\ inflight[1].data = <<"/","9","k">>

\* C18: under FairSpec, an analysis that is running eventually is not.
AnalysisEventuallyEnds == isAnalyzing ~> ~isAnalyzing

\* C18 witness: a rejected fetch has ended the analysis
RejectedFetchEnded ==
    /\ last.op = "analyzeLips.settled"
    /\ last.arg = "reject"
    /\ ~isAnalyzing /\ inflight = <<>>

\* C19: a result is never held without an image.
ResultImpliesImage == TruthyValue(results) => Truthy(image)

\* C19 witness: a result is displayed and the image was replaced, not dropped
ResultWithReplacedImage ==
    /\ last.op = "capturePhoto"
    /\ ResultPanel
    /\ Truthy(image) /\ image # resultsFor

====
